---- MODULE Spec2Model ----
(***************************************************************************)
(* A model of the type-state builder of src/main.rs: ItemBuilder<A, B>     *)
(* with its two marker parameters, the possibly-uninitialized field        *)
(* storage, the setters a and b, construct, the hand-written destructor    *)
(* and the Item it produces.                                               *)
(*                                                                         *)
(* Heap values (the String and the Vec<i32> passed to the setters) are     *)
(* allocations with an identity; the heap counts how often each one has    *)
(* been destroyed.  Every access the code makes to a field's storage       *)
(* (destroy, store, read) is appended to a trace in program order.  Moving *)
(* the builder (passing self, transmute) relocates the bytes of the fields *)
(* and accesses no value.                                                  *)
(***************************************************************************)
EXTENDS Integers, Sequences, FiniteSets, TLC

\* Bound on the number of setter calls made on one builder chain.
MaxCalls == 3

\* The String values main passes to setter a (lines 124, 136, 139, 141).
AVals == {"incomplete", "str", "str2"}

\* The Vec<i32> values main passes to setter b (lines 125, 137, 140, 141).
BVals == {<< >>, <<1, 2, 3, 4>>, <<5, 6, 7, 8, 9, 10>>}

\* What std::mem::uninitialized() leaves in a field: indeterminate bytes.
\* The choice is nondeterministic: a 0x01 fill or whatever the stack held.
UninitBits == {"0x01", "junk"}

\* The two marker types (lines 8 and 10), by name.
Unset == "Unset"
Set == "Set"

\* The types whose identity the program can ask for.
TypeNames == <<"Unset", "Set", "String", "Vec<i32>">>

\* TypeId::of::<T>(): a distinct identity per type.
TypeId_of(T) == CHOOSE i \in 1..Len(TypeNames) : TypeNames[i] = T

\* is_set comparing with the identity of Unset.
is_set_reversed(A) == TypeId_of(A) = TypeId_of(Unset)

\* fn is_set<A>() -> bool
is_set(A) == TypeId_of(A) = TypeId_of(Set)

Fields == {"a", "b"}

\* Field storage that was never written: indeterminate bytes, no value.
Uninit(g) == [kind |-> "uninit", ref |-> 0, bits |-> g]

\* Field storage that owns heap value number i.
Owned(i) == [kind |-> "value", ref |-> i, bits |-> "-"]

\* One access to field storage: which operation, what it did, which field,
\* which heap value (0 when the storage held none).
Ev(op, what, f, slot) ==
    [op |-> op, what |-> what, field |-> f, ref |-> slot.ref, init |-> slot.kind = "value"]

VARIABLES
    phase,   \* "builder", "dropped", "item", "item_dropped", "aborted"
    self,    \* the builder: [a, b: storage, _a, _b: marker type]
    heap,    \* heap[i] = [field, val, drops]: the i-th value handed to a setter
    log,     \* the accesses to field storage, in program order
    fault,   \* a memory error happened (use of uninitialized or destroyed data)
    dtor,    \* how often Drop::drop of the builder has run
    item,    \* the Item construct returned: [a, b: heap value]
    hist     \* the calls the driver made: [op, arg, at], at = Len(log) at the call

vars == <<phase, self, heap, log, fault, dtor, item, hist>>

\* The part of the state the builder's methods work on.
M ==
    [self |-> self, heap |-> heap, log |-> log, fault |-> fault, dtor |-> dtor,
     item |-> item]

Commit(m) ==
    /\ self' = m.self
    /\ heap' = m.heap
    /\ log' = m.log
    /\ fault' = m.fault
    /\ dtor' = m.dtor
    /\ item' = m.item

\* new() typed ItemBuilder<Set, Unset>.
new_marked_set(ga, gb) == [a |-> Uninit(ga), b |-> Uninit(gb), _a |-> Set, _b |-> Unset]

\* ItemBuilder::new(): both fields uninitialized, both markers Unset.
new(ga, gb) == [a |-> Uninit(ga), b |-> Uninit(gb), _a |-> Unset, _b |-> Unset]

\* Running the destructor of what `slot` holds, on behalf of operation op.
\* On storage that holds no value, or a value already destroyed, this is a
\* memory error.
Destroy(m, op, f, slot) ==
    IF slot.kind = "value"
    THEN [m EXCEPT !.heap[slot.ref].drops = @ + 1,
                   !.log = Append(@, Ev(op, "destroy", f, slot)),
                   !.fault = @ \/ m.heap[slot.ref].drops >= 1]
    ELSE [m EXCEPT !.log = Append(@, Ev(op, "destroy", f, slot)),
                   !.fault = TRUE]

\* unsafe { ManuallyDrop::drop(&mut self.f); } as written in operation op.
ManuallyDrop_drop(m, op, f) == Destroy(m, op, f, m.self[f])

\* std::ptr::read of a pointer to field f's storage: takes the value out of
\* it.  Reading storage that holds no value, or a destroyed one, is a memory
\* error.
ptr_read(m, op, f) ==
    LET slot == m.self[f] IN
    [m EXCEPT !.log = Append(@, Ev(op, "read", f, slot)),
              !.fault = @ \/ slot.kind # "value"
                          \/ (slot.kind = "value" /\ m.heap[slot.ref].drops >= 1)]

\* std::mem::forget(self): the builder's lifetime ends and no destructor
\* runs.  The bytes of the fields stay where they were.
forget(m, op) ==
    [m EXCEPT !.log = Append(@, [op |-> op, what |-> "forget", field |-> "-",
                                 ref |-> 0, init |-> TRUE])]

\* self.f = ManuallyDrop::new(v): the assignment runs no destructor on the old
\* contents (ManuallyDrop has none); the storage now owns the new value.
Store(m, op, f, v) ==
    LET id == Len(m.heap) + 1 IN
    [m EXCEPT !.heap = Append(@, [field |-> f, val |-> v, drops |-> 0]),
              !.self[f] = Owned(id),
              !.log = Append(@, Ev(op, "store", f, Owned(id)))]

\* unsafe { transmute(self) } to ItemBuilder<A2, B2>: the same bytes under
\* another type; self is consumed and its destructor does not run.
transmute(m, A2, B2) == [m EXCEPT !.self._a = A2, !.self._b = B2]

\* Setter a declared to return ItemBuilder<Set, Set>.
a_returns_complete(m, v) ==
    LET m1 == IF is_set(m.self._a) THEN ManuallyDrop_drop(m, "a", "a") ELSE m
        m2 == Store(m1, "a", "a", v)
    IN  transmute(m2, Set, Set)

\* Setter a with the store inside the else branch of the is_set test.
a_store_only_if_unset(m, v) ==
    LET m1 == IF is_set(m.self._a)
              THEN ManuallyDrop_drop(m, "a", "a")
              ELSE Store(m, "a", "a", v)
    IN  transmute(m1, Set, m1.self._b)

\* Setter a without the release of the previous value.
a_no_drop(m, v) ==
    LET m2 == Store(m, "a", "a", v)
    IN  transmute(m2, Set, m2.self._b)

\* Setter a releasing the storage without asking is_set.
a_always_drop(m, v) ==
    LET m1 == ManuallyDrop_drop(m, "a", "a")
        m2 == Store(m1, "a", "a", v)
    IN  transmute(m2, Set, m2.self._b)

\* Setter a declared to return ItemBuilder<String, B>: the field's own type
\* as the marker, with is_set still comparing against Set.
a_returns_field_type(m, v) ==
    LET m1 == IF is_set(m.self._a) THEN ManuallyDrop_drop(m, "a", "a") ELSE m
        m2 == Store(m1, "a", "a", v)
    IN  transmute(m2, "String", m2.self._b)

\* Setter a asking is_set about the marker of field b.
a_asks_B(m, v) ==
    LET m1 == IF is_set(m.self._b) THEN ManuallyDrop_drop(m, "a", "a") ELSE m
        m2 == Store(m1, "a", "a", v)
    IN  transmute(m2, Set, m2.self._b)

\* Setter a built without the cast: the builder passed in goes out of scope
\* at the end of the setter and its destructor runs, under its old type.
a_without_transmute(m, v) ==
    LET m1 == IF is_set(m.self._a) THEN ManuallyDrop_drop(m, "a", "a") ELSE m
        m2 == Store(m1, "a", "a", v)
        m3 == [m2 EXCEPT !.dtor = @ + 1]
        m4 == IF is_set(m.self._a) THEN ManuallyDrop_drop(m3, "drop", "a") ELSE m3
        m5 == IF is_set(m.self._b) THEN ManuallyDrop_drop(m4, "drop", "b") ELSE m4
    IN  transmute(m5, Set, m5.self._b)

\* pub fn a(mut self, a: String) -> ItemBuilder<Set, B>
a(m, v) ==
    LET m1 == IF is_set(m.self._a) THEN ManuallyDrop_drop(m, "a", "a") ELSE m
        m2 == Store(m1, "a", "a", v)
    IN  transmute(m2, Set, m2.self._b)

\* Setter b without the release of the previous value.
b_no_drop(m, v) ==
    LET m2 == Store(m, "b", "b", v)
    IN  transmute(m2, m2.self._a, Set)

\* Setter b copied from setter a with the field of the release left as a.
b_drops_a(m, v) ==
    LET m1 == IF is_set(m.self._b) THEN ManuallyDrop_drop(m, "b", "a") ELSE m
        m2 == Store(m1, "b", "b", v)
    IN  transmute(m2, m2.self._a, Set)

\* Setter b declared to return ItemBuilder<Unset, Set>.
b_returns_unset_a(m, v) ==
    LET m1 == IF is_set(m.self._b) THEN ManuallyDrop_drop(m, "b", "b") ELSE m
        m2 == Store(m1, "b", "b", v)
    IN  transmute(m2, Unset, Set)

\* pub fn b(mut self, b: Vec<i32>) -> ItemBuilder<A, Set>
b(m, v) ==
    LET m1 == IF is_set(m.self._b) THEN ManuallyDrop_drop(m, "b", "b") ELSE m
        m2 == Store(m1, "b", "b", v)
    IN  transmute(m2, m2.self._a, Set)

\* impl ItemBuilder<Set, Set>: construct exists for this one type only.
HasConstruct(s) == s._a = Set /\ s._b = Set

\* construct without the forget: the builder's destructor runs when self
\* goes out of scope at the end of construct.
construct_no_forget(m) ==
    LET s == m.self.a
        v == m.self.b
        m2 == ptr_read(m, "construct", "a")
        m3 == ptr_read(m2, "construct", "b")
        m4 == [m3 EXCEPT !.item = [a |-> s.ref, b |-> v.ref]]
        m5 == [m4 EXCEPT !.dtor = @ + 1]
        m6 == IF is_set(m5.self._a) THEN ManuallyDrop_drop(m5, "drop", "a") ELSE m5
    IN  IF is_set(m6.self._b) THEN ManuallyDrop_drop(m6, "drop", "b") ELSE m6

\* pub fn construct(self) -> Item
construct(m) ==
    LET s == m.self.a
        v == m.self.b
        m1 == forget(m, "construct")
        m2 == ptr_read(m1, "construct", "a")
        m3 == ptr_read(m2, "construct", "b")
    IN  [m3 EXCEPT !.item = [a |-> s.ref, b |-> v.ref]]

\* The destructor without its second test: field b is never released.
drop_only_a(m) ==
    LET m0 == [m EXCEPT !.dtor = @ + 1]
    IN  IF is_set(m0.self._a) THEN ManuallyDrop_drop(m0, "drop", "a") ELSE m0

\* The destructor releasing both fields whatever the markers say.
drop_unconditional(m) ==
    LET m0 == [m EXCEPT !.dtor = @ + 1]
        m1 == ManuallyDrop_drop(m0, "drop", "a")
    IN  ManuallyDrop_drop(m1, "drop", "b")

\* impl<A, B> Drop for ItemBuilder<A, B>: fn drop(&mut self)
drop(m) ==
    LET m0 == [m EXCEPT !.dtor = @ + 1]
        m1 == IF is_set(m0.self._a) THEN ManuallyDrop_drop(m0, "drop", "a") ELSE m0
        m2 == IF is_set(m1.self._b) THEN ManuallyDrop_drop(m1, "drop", "b") ELSE m1
    IN  m2

\* The destructor the compiler generates for Item: its fields String and
\* Vec<i32> are destroyed in declaration order.
Item_drop(m) ==
    LET m1 == Destroy(m, "Item_drop", "a", Owned(m.item.a))
        m2 == Destroy(m1, "Item_drop", "b", Owned(m.item.b))
    IN  m2

\* The state after ItemBuilder::new() in main.  Creating a String or a Vec
\* with mem::uninitialized is undefined behaviour: the build either leaves
\* indeterminate bytes in the fields, or (toolchains whose
\* mem::uninitialized checks the type) panics before any builder exists.
Init ==
    /\ \E ga \in UninitBits, gb \in UninitBits : self = new(ga, gb)
    /\ phase \in {"builder", "aborted"}
    /\ heap = << >>
    /\ log = << >>
    /\ fault = FALSE
    /\ dtor = 0
    /\ item = [a |-> 0, b |-> 0]
    /\ hist = << >>

CallA ==
    \E v \in AVals :
        /\ phase = "builder"
        /\ Len(heap) < MaxCalls
        /\ Commit(a(M, v))
        /\ hist' = Append(hist, [op |-> "a", arg |-> v, at |-> Len(log)])
        /\ UNCHANGED phase

CallB ==
    \E v \in BVals :
        /\ phase = "builder"
        /\ Len(heap) < MaxCalls
        /\ Commit(b(M, v))
        /\ hist' = Append(hist, [op |-> "b", arg |-> v, at |-> Len(log)])
        /\ UNCHANGED phase

\* complete.construct() (lines 127, 141): only typed for ItemBuilder<Set, Set>.
CallConstruct ==
    /\ phase = "builder"
    /\ HasConstruct(self)
    /\ Commit(construct(M))
    /\ hist' = Append(hist, [op |-> "construct", arg |-> "-", at |-> Len(log)])
    /\ phase' = "item"

\* drop(builder) or the builder going out of scope (lines 135-140).
DropBuilder ==
    /\ phase = "builder"
    /\ Commit(drop(M))
    /\ hist' = Append(hist, [op |-> "drop", arg |-> "-", at |-> Len(log)])
    /\ phase' = "dropped"

\* The Item is discarded: the end of the println! statement (line 127) or
\* drop(..construct()) (line 141).
DropItem ==
    /\ phase = "item"
    /\ Commit(Item_drop(M))
    /\ hist' = Append(hist, [op |-> "Item_drop", arg |-> "-", at |-> Len(log)])
    /\ phase' = "item_dropped"

Next == CallA \/ CallB \/ CallConstruct \/ DropBuilder \/ DropItem

Spec == Init /\ [][Next]_vars

----------------------------------------------------------------------------
\* Vocabulary of the properties.

\* The marker type of field f in builder s.
Marker(s, f) == IF f = "a" THEN s._a ELSE s._b

\* The storage holds a value that has not been destroyed.
Live(slot) == slot.kind = "value" /\ heap[slot.ref].drops = 0

\* The positions in the call history of the calls to operation op.
CallsOf(op) == {i \in 1..Len(hist) : hist[i].op = op}

WasSet(f) == CallsOf(f) # {}

\* The argument of the most recent call to setter f.
LastArg(f) == hist[CHOOSE i \in CallsOf(f) : \A j \in CallsOf(f) : j <= i].arg

\* The positions in the trace of the accesses of kind `what` made by op.
Accesses(op, what) == {i \in 1..Len(log) : log[i].op = op /\ log[i].what = what}

Constructed == phase \in {"item", "item_dropped"}

----------------------------------------------------------------------------
\* C1: construct can be called exactly on a builder of type
\* ItemBuilder<Set, Set>, such a builder exists only after setter a and
\* setter b have each been called, and so every construct that happened was
\* preceded by a call of a and a call of b; from (Unset, Unset),
\* (Set, Unset) and (Unset, Set) construct is not available.
C1_ConstructOnlyWhenBothSet ==
    /\ (ENABLED CallConstruct) <=> (phase = "builder" /\ self._a = Set /\ self._b = Set)
    /\ (phase = "builder" /\ self._a = Set /\ self._b = Set) => (WasSet("a") /\ WasSet("b"))
    /\ \A i \in CallsOf("construct") :
          /\ \E j \in CallsOf("a") : j < i
          /\ \E j \in CallsOf("b") : j < i
    /\ Constructed <=> CallsOf("construct") # {}

\* construct has been called, after a call of b followed by a call of a.
C1_Witness ==
    /\ phase = "item"
    /\ Len(hist) = 3
    /\ hist[1].op = "b" /\ hist[2].op = "a" /\ hist[3].op = "construct"

\* C2: in every builder state (after new and any setter calls), the storage
\* of a field holds a live, not yet destroyed value iff the field's marker
\* is Set.
C2_LiveIffSet ==
    phase = "builder" =>
        \A f \in Fields : Live(self[f]) <=> (Marker(self, f) = Set)

\* Field a was set twice and field b never.
C2_Witness ==
    /\ phase = "builder"
    /\ Len(hist) = 2
    /\ self._a = Set /\ self._b = Unset
    /\ Live(self.a) /\ ~Live(self.b)

\* C3: after any sequence of setter calls the live fields are exactly the
\* fields set at least once, and each holds the argument of the most recent
\* call of its setter.
C3_LastWriteWins ==
    phase = "builder" =>
        \A f \in Fields :
            /\ Live(self[f]) <=> WasSet(f)
            /\ WasSet(f) => heap[self[f].ref].val = LastArg(f)

\* a("str"), b([1,2,3,4]), a("str2"): a holds "str2", not "str".
C3_Witness ==
    /\ phase = "builder"
    /\ Len(hist) = 3
    /\ hist[1].op = "a" /\ hist[1].arg = "str"
    /\ hist[2].op = "b"
    /\ hist[3].op = "a" /\ hist[3].arg = "str2"
    /\ heap[self.a.ref].val = "str2"

\* C4: construct returns an Item whose a and b are the last values passed to
\* the setters; construct destroys nothing, the builder's destructor does
\* not run on the consumed builder, and no value is destroyed twice (once
\* via the builder and once via the Item).  new().a("incomplete").b([])
\* .construct() yields Item {a: "incomplete", b: []}.
C4_ConstructTransfersOwnership ==
    /\ Constructed =>
          /\ heap[item.a].val = LastArg("a")
          /\ heap[item.b].val = LastArg("b")
          /\ Accesses("construct", "destroy") = {}
          /\ Accesses("drop", "destroy") = {}
          /\ dtor = 0
          /\ \A i \in 1..Len(heap) : heap[i].drops <= 1
    /\ phase = "item" => heap[item.a].drops = 0 /\ heap[item.b].drops = 0
    /\ ( /\ phase = "item"
         /\ Len(hist) = 3
         /\ hist[1].op = "a" /\ hist[1].arg = "incomplete"
         /\ hist[2].op = "b" /\ hist[2].arg = << >> )
       => (heap[item.a].val = "incomplete" /\ heap[item.b].val = << >>)

\* The Item of main's first scenario exists.
C4_Witness ==
    /\ phase = "item"
    /\ Len(hist) = 3
    /\ hist[1].op = "a" /\ hist[1].arg = "incomplete"
    /\ hist[2].op = "b" /\ hist[2].arg = << >>
    /\ heap[item.a].val = "incomplete" /\ heap[item.b].val = << >>

\* C5: discarding a builder destroys exactly the current values of the
\* fields whose marker is Set, each once, and nothing else: none with no
\* field set, one with one field set, both with both set.
C5_DropReleasesExactlySetFields ==
    phase = "dropped" =>
        LET D == Accesses("drop", "destroy") IN
        /\ \A f \in Fields :
              Marker(self, f) = Set =>
                  /\ Cardinality({i \in D : log[i].field = f}) = 1
                  /\ \A i \in D : log[i].field = f =>
                        (log[i].init /\ log[i].ref = self[f].ref)
        /\ \A i \in D : Marker(self, log[i].field) = Set
        /\ Cardinality(D) = Cardinality({f \in Fields : Marker(self, f) = Set})
        /\ dtor = 1

\* A builder with only b set (twice) was discarded: one destruction by drop.
C5_Witness ==
    /\ phase = "dropped"
    /\ self._a = Unset /\ self._b = Set
    /\ Len(heap) = 2
    /\ Cardinality(Accesses("drop", "destroy")) = 1

\* What a step that calls setter f adds to the trace.
NewAccesses == SubSeq(log', Len(log) + 1, Len(log'))

\* A step that calls setter f on a builder whose marker for f is Set
\* destroys the stored value (once: it was live before) and then stores the
\* new one; on a builder whose marker for f is Unset it only stores.
SetterStep(f) ==
    LET old == self[f]
        seg == NewAccesses
    IN  IF Marker(self, f) = Set
        THEN /\ Len(seg) = 2
             /\ seg[1] = Ev(f, "destroy", f, old)
             /\ old.kind = "value"
             /\ heap[old.ref].drops = 0 /\ heap'[old.ref].drops = 1
             /\ seg[2] = Ev(f, "store", f, self'[f])
             /\ self'[f].ref = Len(heap') /\ self'[f].ref # old.ref
             /\ \A i \in 1..Len(heap) : i # old.ref => heap'[i] = heap[i]
        ELSE /\ seg = <<Ev(f, "store", f, self'[f])>>
             /\ \A i \in 1..Len(heap) : heap'[i] = heap[i]

\* A value a setter has replaced, while the builder is in use, has been
\* destroyed exactly once.
ReplacedOnce ==
    phase = "builder" =>
        \A i \in 1..Len(heap) :
            self[heap[i].field].ref # i => heap[i].drops = 1

\* C6: a setter called on a builder whose marker for its field is Set
\* destroys the previously stored value exactly once, before it stores the
\* new value; called with the marker Unset it destroys nothing.  The first of
\* two values set is neither leaked nor destroyed twice.
C6_OverwriteDestroysOldFirst ==
    /\ [][\A f \in Fields :
            (Len(hist') = Len(hist) + 1 /\ hist'[Len(hist')].op = f) => SetterStep(f)]_vars
    /\ []ReplacedOnce

\* Setter a ran on a builder with a already Set: the trace holds the
\* destruction of the first value followed by the store of the second.
C6_Witness ==
    /\ phase = "builder"
    /\ Len(hist) = 2 /\ hist[1].op = "a" /\ hist[2].op = "a"
    /\ Len(log) = 3
    /\ log[2].what = "destroy" /\ log[2].ref = 1
    /\ log[3].what = "store" /\ log[3].ref = 2
    /\ heap[1].drops = 1 /\ heap[2].drops = 0

\* C7: when a lifecycle is complete (the builder was discarded, or construct
\* was called and the Item was discarded), every value ever passed to a
\* setter has been destroyed exactly once.
C7_ExactlyOnceRelease ==
    phase \in {"dropped", "item_dropped"} =>
        \A i \in 1..Len(heap) : heap[i].drops = 1

\* A complete lifecycle through construct in which b was overwritten: the
\* three values were released by an overwrite and by the Item.
C7_Witness ==
    /\ phase = "item_dropped"
    /\ Len(heap) = 3
    /\ Accesses("b", "destroy") # {}
    /\ Cardinality(Accesses("Item_drop", "destroy")) = 2

\* C8: every read or destruction of a field's storage found a value there,
\* and came after a call of that field's setter had stored one: no operation
\* reads or destroys the storage of a field whose marker is Unset.
C8_NoAccessWhileUnset ==
    \A i \in 1..Len(log) :
        log[i].what \in {"destroy", "read"} =>
            /\ log[i].init
            /\ \E j \in CallsOf(log[i].field) :
                  \E k \in 1..(i - 1) :
                      /\ hist[j].at < k
                      /\ log[k].what = "store"
                      /\ log[k].field = log[i].field

\* A builder with a Set and b Unset was discarded: the destructor touched a
\* and left b alone.
C8_Witness ==
    /\ phase = "dropped"
    /\ self._a = Set /\ self._b = Unset
    /\ self.b.kind = "uninit"
    /\ \E i \in Accesses("drop", "destroy") : log[i].field = "a"
    /\ \A i \in 1..Len(log) : log[i].field # "b"

\* C9: no operation fails at run time.  On every builder both setters and
\* the destructor can be applied, construct can be applied when the markers
\* are (Set, Set), and none of them ever ends in a memory error.
C9_NoRuntimeErrors ==
    /\ ~fault
    /\ phase = "builder" =>
          /\ ENABLED DropBuilder
          /\ HasConstruct(self) => ENABLED CallConstruct
          /\ Len(heap) < MaxCalls => (ENABLED CallA /\ ENABLED CallB)
    /\ phase = "item" => ENABLED DropItem

\* Every operation has run: both setters, an overwrite, construct and the
\* destruction of the Item.
C9_Witness ==
    /\ phase = "item_dropped"
    /\ ~fault
    /\ Len(hist) = 5
    /\ Accesses("a", "destroy") # {}

\* The scenario new().a("str").a("str2") followed by drop.
StrStr2Dropped ==
    /\ phase = "dropped"
    /\ Len(hist) = 3
    /\ hist[1].op = "a" /\ hist[1].arg = "str"
    /\ hist[2].op = "a" /\ hist[2].arg = "str2"
    /\ hist[3].op = "drop"

\* C10: in new().a("str").a("str2") followed by drop, the discard performs
\* exactly one destruction, that of "str2"; "str" was destroyed by the
\* overwrite, before the discard; field b's storage is never destroyed.
C10_StrStr2Scenario ==
    StrStr2Dropped =>
        /\ Cardinality(Accesses("drop", "destroy")) = 1
        /\ \A i \in Accesses("drop", "destroy") :
              log[i].field = "a" /\ heap[log[i].ref].val = "str2"
        /\ Cardinality(Accesses("a", "destroy")) = 1
        /\ \A i \in Accesses("a", "destroy") :
              /\ heap[log[i].ref].val = "str"
              /\ hist[2].at < i /\ i <= hist[3].at
        /\ \A i \in 1..Len(log) : log[i].what = "destroy" => log[i].field = "a"
        /\ heap[1].drops = 1 /\ heap[2].drops = 1

\* The scenario has run to its end.
C10_Witness ==
    /\ StrStr2Dropped
    /\ Len(log) = 4
    /\ log[4].op = "drop" /\ log[4].what = "destroy"

\* The step is a call of operation op by the driver.
IsCall(op) == Len(hist') = Len(hist) + 1 /\ hist'[Len(hist')].op = op

\* The other field.
Other(f) == IF f = "a" THEN "b" ELSE "a"

\* What a call of setter f leaves alone: the other field's marker and
\* storage, every heap value but the one f's storage held, the Item and the
\* destructor count; all it touches is f's own storage, and it destroys at
\* most one value, which belonged to f.
SetterFrame(f) ==
    LET g == Other(f)
        seg == NewAccesses
        destroyed == {i \in 1..Len(seg) : seg[i].what = "destroy"}
    IN  /\ Marker(self', f) = Set
        /\ Marker(self', g) = Marker(self, g)
        /\ self'[g] = self[g]
        /\ \A i \in 1..Len(seg) : seg[i].field = f
        /\ Cardinality(destroyed) <= 1
        /\ \A i \in destroyed : seg[i].ref = self[f].ref
        /\ Len(heap') = Len(heap) + 1
        /\ \A i \in 1..Len(heap) :
              (heap[i].field = g \/ i # self[f].ref) => heap'[i] = heap[i]
        /\ heap'[Len(heap')].field = f /\ self'[f].ref = Len(heap')
        /\ UNCHANGED <<item, dtor, fault, phase>>

\* C11: a call of setter a changes only field a's marker (to Set) and field
\* a's stored value; field b's marker and stored value are unchanged and
\* nothing of b is destroyed (and symmetrically for setter b).  The only side
\* effect is the destruction of at most one prior value of the field set.
C11_SetterFrame ==
    [][\A f \in Fields : IsCall(f) => SetterFrame(f)]_vars

\* Setter b ran on a builder with both fields Set: a's storage still holds
\* its undestroyed value.
C11_Witness ==
    /\ phase = "builder"
    /\ Len(hist) = 3
    /\ hist[1].op = "a" /\ hist[2].op = "b" /\ hist[3].op = "b"
    /\ self.a.ref = 1 /\ heap[1].drops = 0
    /\ heap[2].drops = 1

\* Per field: a marker changes only from Unset to Set, in a call of that
\* field's setter; a Set marker stays Set, and while the builder is in use
\* its storage holds a live value.
MarkerStep(f) ==
    /\ Marker(self, f) # Marker(self', f) =>
          (IsCall(f) /\ Marker(self, f) = Unset /\ Marker(self', f) = Set)
    /\ IsCall(f) => Marker(self', f) = Set
    /\ Marker(self, f) = Set =>
          /\ Marker(self', f) = Set
          /\ phase' = "builder" => Live(self[f])'

\* C12: the only per-field transitions are Unset -> Set and Set -> Set, both
\* by that field's setter; construct is the only step from the builder to
\* the Item and starts from (Set, Set).  No step takes a field from Set back
\* to Unset or leaves a Set field without a live value, so a builder on which
\* construct is applicable keeps it applicable under further setter calls.
C12_MarkersMonotone ==
    [][/\ \A f \in Fields : MarkerStep(f)
       /\ (phase = "builder" /\ phase' = "item") <=> IsCall("construct")
       /\ IsCall("construct") => HasConstruct(self)
       /\ (HasConstruct(self) /\ (IsCall("a") \/ IsCall("b")))
            => (HasConstruct(self') /\ phase' = "builder")]_vars

\* After both fields were set, setter a ran again and construct is still
\* applicable.
C12_Witness ==
    /\ phase = "builder"
    /\ Len(hist) = 3
    /\ hist[1].op = "b" /\ hist[2].op = "a" /\ hist[3].op = "a"
    /\ HasConstruct(self)
    /\ Live(self.a) /\ Live(self.b)

\* C13: the builder's destructor runs at most once per chain, and only when
\* the builder is discarded: never in a setter (the cast hands the storage
\* on without running drop) and never on a builder consumed by construct.
C13_DestructorOnlyOnDiscard ==
    /\ dtor = Cardinality(CallsOf("drop"))
    /\ dtor <= 1
    /\ dtor = 1 <=> phase = "dropped"
    /\ Constructed => dtor = 0
    /\ \A i \in 1..Len(log) :
          log[i].op = "drop" => (phase = "dropped" /\ hist[Len(hist)].at < i)

\* A chain of three setter calls ended by construct and the Item's
\* destruction: the builder's destructor never ran.
C13_Witness ==
    /\ phase = "item_dropped"
    /\ Len(heap) = 3
    /\ dtor = 0

\* The builder in use owns heap value i / the Item in use owns it.
BuilderOwns(i) ==
    /\ phase = "builder"
    /\ self[heap[i].field].kind = "value"
    /\ self[heap[i].field].ref = i

ItemOwns(i) == phase = "item" /\ item[heap[i].field] = i

\* Every value that has not been destroyed has one owner, the builder or
\* the Item and not both; a destroyed value has none.
OneOwner ==
    \A i \in 1..Len(heap) :
        /\ heap[i].drops = 0 => (BuilderOwns(i) /\ ~ItemOwns(i)) \/ (ItemOwns(i) /\ ~BuilderOwns(i))
        /\ heap[i].drops >= 1 => (~BuilderOwns(i) /\ ~ItemOwns(i))

\* A builder that was consumed (by construct or by being discarded) accepts
\* no further operation.
ConsumedIsUnusable ==
    phase # "builder" =>
        /\ ~ENABLED CallA
        /\ ~ENABLED CallB
        /\ ~ENABLED CallConstruct
        /\ ~ENABLED DropBuilder

\* C14: at every point each live stored value has exactly one owner, the
\* builder or the Item; construct consumes the builder, after which no
\* setter, construct or drop applies to it, and the Item's destruction does
\* not involve the builder.
C14_ExclusiveOwnership ==
    /\ [](OneOwner /\ ConsumedIsUnusable)
    /\ [][IsCall("construct") =>
            /\ \A i \in 1..Len(heap) : BuilderOwns(i) => ItemOwns(i)'
            /\ heap' = heap]_vars
    /\ [][IsCall("Item_drop") => (self' = self /\ dtor' = dtor)]_vars

\* construct has handed both values of a builder, one of them set twice, to
\* the Item.
C14_Witness ==
    /\ phase = "item"
    /\ Len(heap) = 3
    /\ ItemOwns(item.a) /\ ItemOwns(item.b)
    /\ heap[item.a].drops = 0 /\ heap[item.b].drops = 0

Markers == {Unset, Set}

\* C15: every builder reachable from new() carries only the markers Unset
\* and Set, and all four pairs are reachable: new() gives (Unset, Unset),
\* from which a leads to (Set, Unset) and b to (Unset, Set), and from
\* (Set, Unset) b leads to (Set, Set).
C15_ReachableMarkerPairs ==
    /\ self._a \in Markers /\ self._b \in Markers
    /\ Len(hist) = 0 => (self._a = Unset /\ self._b = Unset)
    /\ (phase = "builder" /\ Len(hist) = 0) =>
          /\ ENABLED (CallA /\ self'._a = Set /\ self'._b = Unset)
          /\ ENABLED (CallB /\ self'._a = Unset /\ self'._b = Set)
    /\ (phase = "builder" /\ Len(hist) = 1 /\ self._a = Set /\ self._b = Unset) =>
          ENABLED (CallB /\ self'._a = Set /\ self'._b = Set)

\* The fourth pair: b set, a not.
C15_Witness ==
    /\ phase = "builder"
    /\ self._a = Unset /\ self._b = Set
    /\ Len(hist) = 1

\* The two orders of setting a to x and b to y on the builder in use.
SetAB(x, y) == b(a(M, x), y)
SetBA(x, y) == a(b(M, y), x)

\* The values present before the two calls that a result has destroyed.
DestroyedPrior(m) == {i \in 1..Len(heap) : m.heap[i].drops > heap[i].drops}

\* Field f holds the same in both results: a value with the same contents
\* and the same number of destructions, or no value.
SameStored(m1, m2, f) ==
    /\ m1.self[f].kind = m2.self[f].kind
    /\ m1.self[f].kind = "value" =>
          /\ m1.heap[m1.self[f].ref].val = m2.heap[m2.self[f].ref].val
          /\ m1.heap[m1.self[f].ref].drops = m2.heap[m2.self[f].ref].drops

\* C16: on every builder, a(x) then b(y) and b(y) then a(x) give the same
\* markers, the same stored values and the same set of destroyed prior
\* values.
C16_SettersCommute ==
    phase = "builder" =>
        \A x \in AVals, y \in BVals :
            LET ab == SetAB(x, y)
                ba == SetBA(x, y)
            IN  /\ ab.self._a = ba.self._a /\ ab.self._b = ba.self._b
                /\ SameStored(ab, ba, "a") /\ SameStored(ab, ba, "b")
                /\ DestroyedPrior(ab) = DestroyedPrior(ba)
                /\ ab.fault = ba.fault /\ ab.dtor = ba.dtor
                /\ Len(ab.heap) = Len(ba.heap)

\* A builder with both fields Set: either order destroys both prior values
\* and stores "str2" and [1, 2, 3, 4].
C16_Witness ==
    /\ phase = "builder"
    /\ HasConstruct(self)
    /\ Len(heap) = 2
    /\ DestroyedPrior(SetAB("str2", <<1, 2, 3, 4>>)) = {1, 2}
    /\ DestroyedPrior(SetBA("str2", <<1, 2, 3, 4>>)) = {1, 2}
    /\ SetAB("str2", <<1, 2, 3, 4>>).heap[3].val = "str2"
    /\ SetBA("str2", <<1, 2, 3, 4>>).heap[4].val = "str2"

\* The accesses of a step that destroy storage of field f.
DestroysOf(f) == {i \in 1..Len(NewAccesses) :
                    NewAccesses[i].what = "destroy" /\ NewAccesses[i].field = f}

\* C17: is_set is defined for every type and true exactly for Set (false
\* for Unset, true for Set), and a setter and the destructor destroy a
\* field's storage exactly when is_set holds of that field's marker.
C17_IsSetDecides ==
    /\ [](/\ \A i \in 1..Len(TypeNames) :
               /\ is_set(TypeNames[i]) \in BOOLEAN
               /\ is_set(TypeNames[i]) <=> TypeNames[i] = Set
          /\ is_set(Set) /\ ~is_set(Unset))
    /\ [][/\ \A f \in Fields :
               IsCall(f) => (DestroysOf(f) # {} <=> Marker(self, f) = Set)
          /\ IsCall("drop") =>
               \A f \in Fields : (DestroysOf(f) # {} <=> Marker(self, f) = Set)]_vars

\* A builder with a Set and b Unset was discarded: is_set answered true for
\* a's marker and false for b's, and only a was destroyed.
C17_Witness ==
    /\ phase = "dropped"
    /\ is_set(self._a) /\ ~is_set(self._b)
    /\ Len(heap) = 1
    /\ Len(log) = 2
    /\ log[2].op = "drop" /\ log[2].what = "destroy" /\ log[2].field = "a"
====
